---- MODULE Spec2Model ----
(***************************************************************************)
(* Quiz recommendation pipeline: the console script (src/rec.py) and the   *)
(* dashboard (src/app.py).                                                 *)
(*                                                                         *)
(* Numbers that the code keeps as floats (means, accuracies, percentages)  *)
(* are exact fractions <<num, den>>; den = 0 is NaN (the mean of nothing). *)
(* Timestamps are counted in ticks, TicksPerDay ticks to a day.            *)
(***************************************************************************)
EXTENDS Integers, Sequences, FiniteSets, TLC

VARIABLES pc, quiz_data, submission_data, historical_data, now,
          current_analysis, hist_result, insights, recommendations,
          output, prev_run, current_quiz, historical_quizzes

vars == <<pc, quiz_data, submission_data, historical_data, now,
          current_analysis, hist_result, insights, recommendations,
          output, prev_run, current_quiz, historical_quizzes>>

\* A local that has not been assigned yet.
Unset == <<>>

-----------------------------------------------------------------------------
(* Bounds *)

\* question identifiers are 1..MaxId
MaxId == 3
\* longest list of questions / submission entries
MaxRows == 2
\* resolution of the clock: ticks to a day (.dt.days keeps the whole days)
TicksPerDay == 2

(* Program constants *)

\* mean * 100
Percent == 100
\* [:3]
TopN == 3

-----------------------------------------------------------------------------
(* Values *)

Topics == {"algebra", "biology", "chemistry", "dynamics"}
Difficulties == {"easy", "medium", "hard", "expert"}
OptionIds == {1, 2}
Ids == 1..MaxId

SeqsUpTo(S, n) == UNION {[1..k -> S] : k \in 0..n}

Range(s) == {s[i] : i \in DOMAIN s}

\* exact fractions; den = 0 stands for NaN
IsNaN(a) == a[2] = 0
\* a < b on floats: every comparison with NaN is false
Less(a, b) == ~IsNaN(a) /\ ~IsNaN(b) /\ a[1] * b[2] < b[1] * a[2]
Times(a, k) == <<a[1] * k, a[2]>>

RECURSIVE SumSeq(_)
SumSeq(s) == IF s = <<>> THEN 0 ELSE Head(s) + SumSeq(Tail(s))

\* Series.mean(): sum / count, NaN for an empty series
Mean(s) == <<SumSeq(s), Len(s)>>

-----------------------------------------------------------------------------
(* rec.py: analyze_current_quiz *)

\* "HH:MM:SS" as <<h, m, s>>
Durations == {<<0, 1, 30>>}

\* pd.to_timedelta(...).dt.total_seconds()
total_seconds(d) == 3600 * d[1] + 60 * d[2] + d[3]

\* A fetched JSON document for the quiz: kind "invalid" is a body that is not
\* JSON, "nokey" a document without the list, "ok" one with it.  timed tells
\* whether the entries carry a timeSpent field.
QuestionRecords(ids, topics, diffs) ==
    [id : ids, topic : topics, difficulty : diffs, correctOptionId : OptionIds]
SubmissionRecords(ids) ==
    [questionId : ids, selectedOptionId : OptionIds]

Payload(kind, rows, timed) == [kind |-> kind, rows |-> rows, timed |-> timed]

QuizPayloads(ids, topics, diffs, n) ==
    {Payload("invalid", <<>>, FALSE), Payload("nokey", <<>>, FALSE)}
    \cup {Payload("ok", r, t) :
            r \in SeqsUpTo(QuestionRecords(ids, topics, diffs), n), t \in BOOLEAN}
SubmissionPayloads(ids, n) ==
    {Payload("invalid", <<>>, FALSE), Payload("nokey", <<>>, FALSE)}
    \cup {Payload("ok", r, t) : r \in SeqsUpTo(SubmissionRecords(ids), n), t \in BOOLEAN}

\* one row of questions.merge(submission, left_on='id', right_on='questionId')
JoinRow(q, s) ==
    [id |-> q.id, topic |-> q.topic, difficulty |-> q.difficulty,
     correctOptionId |-> q.correctOptionId,
     questionId |-> s.questionId, selectedOptionId |-> s.selectedOptionId]

RECURSIVE MatchRows(_, _)
MatchRows(q, subs) ==
    IF subs = <<>> THEN <<>>
    ELSE (IF Head(subs).questionId = q.id THEN <<JoinRow(q, Head(subs))>> ELSE <<>>)
         \o MatchRows(q, Tail(subs))

RECURSIVE InnerJoin(_, _)
InnerJoin(questions, submission) ==
    IF questions = <<>> THEN <<>>
    ELSE MatchRows(Head(questions), submission) \o InnerJoin(Tail(questions), submission)

\* a left join keeps a question nobody answered, with no selected option
RECURSIVE LeftJoin(_, _)
LeftJoin(questions, submission) ==
    IF questions = <<>> THEN <<>>
    ELSE LET q == Head(questions)
             m == MatchRows(q, submission)
         IN (IF m = <<>>
             THEN <<JoinRow(q, [questionId |-> 0, selectedOptionId |-> 0])>>
             ELSE m) \o LeftJoin(Tail(questions), submission)

\* inner join (how='inner' is merge's default), in the order of the left keys
Merge(questions, submission) == InnerJoin(questions, submission)

\* the comparison taken against the wrong column
CorrectColumnWrongColumn(row) == row.correctOptionId = row.questionId

\* analysis['correct'] = analysis['correctOptionId'] == analysis['selectedOptionId']
CorrectColumn(row) == row.correctOptionId = row.selectedOptionId

\* analysis['time_spent'] = pd.to_timedelta(analysis['timeSpent']).dt.total_seconds()
DeriveColumns(row, d) ==
    [id |-> row.id, topic |-> row.topic, difficulty |-> row.difficulty,
     correctOptionId |-> row.correctOptionId,
     questionId |-> row.questionId, selectedOptionId |-> row.selectedOptionId,
     correct |-> CorrectColumn(row), timeSpent |-> d, time_spent |-> total_seconds(d)]

\* The conditions under which analyze_current_quiz raises: a missing top
\* level key (line 23), an empty list whose frame has no join column (line
\* 29), and a timeSpent column that is absent or on both sides, where the
\* merge renames it timeSpent_x / timeSpent_y (line 31).
AnalyzeCurrentRaises(quiz, sub) ==
    \/ quiz.kind # "ok"
    \/ sub.kind # "ok"
    \/ quiz.rows = <<>>
    \/ sub.rows = <<>>
    \/ quiz.timed = sub.timed

analyze_current_quiz(quiz, sub) ==
    IF AnalyzeCurrentRaises(quiz, sub)
    THEN [raised |-> TRUE, rows |-> <<>>]
    ELSE LET merged == Merge(quiz.rows, sub.rows)
             d == CHOOSE x \in Durations : TRUE
         IN [raised |-> FALSE,
             rows |-> [i \in DOMAIN merged |-> DeriveColumns(merged[i], d)]]

-----------------------------------------------------------------------------
(* analyze_current_quiz applied to every bounded pair of documents *)

InitCurrent ==
    /\ pc = "call"
    /\ quiz_data \in {p \in QuizPayloads(Ids, {"algebra"}, {"easy"}, MaxRows) :
                        p.kind # "invalid"}
    /\ submission_data \in {p \in SubmissionPayloads(Ids, MaxRows) : p.kind # "invalid"}
    /\ current_analysis = Unset
    /\ historical_data = Unset /\ now = 0 /\ hist_result = Unset
    /\ insights = Unset /\ recommendations = Unset /\ output = <<>>
    /\ prev_run = Unset /\ current_quiz = Unset /\ historical_quizzes = Unset

CallAnalyzeCurrentQuiz ==
    /\ pc = "call"
    /\ LET r == analyze_current_quiz(quiz_data, submission_data)
       IN /\ current_analysis' = r.rows
          /\ pc' = IF r.raised THEN "raised" ELSE "returned"
    /\ UNCHANGED <<quiz_data, submission_data, historical_data, now, hist_result,
                   insights, recommendations, output, prev_run, current_quiz,
                   historical_quizzes>>

NextCurrent == CallAnalyzeCurrentQuiz

SpecCurrent == InitCurrent /\ [][NextCurrent]_vars

\* the question ids / submission ids are identifiers: no two entries share one
UniqueIds ==
    /\ \A i, j \in DOMAIN quiz_data.rows :
          quiz_data.rows[i].id = quiz_data.rows[j].id => i = j
    /\ \A i, j \in DOMAIN submission_data.rows :
          submission_data.rows[i].questionId = submission_data.rows[j].questionId => i = j

MatchedQuestions ==
    {i \in DOMAIN quiz_data.rows :
        \E j \in DOMAIN submission_data.rows :
            submission_data.rows[j].questionId = quiz_data.rows[i].id}

MatchingPairs ==
    {ij \in (DOMAIN quiz_data.rows) \X (DOMAIN submission_data.rows) :
        submission_data.rows[ij[2]].questionId = quiz_data.rows[ij[1]].id}

\* C2: when analyze_current_quiz returns, it returns one row per pair of a
\* question and a submission entry with the same identifier; with identifiers
\* unique on both sides that is the number of questions whose id appears in
\* the submission, and every row belongs to a question and to a submission
\* entry (unmatched questions and unmatched entries give no row).
C2_InnerJoinCardinality ==
    pc = "returned" =>
        /\ Len(current_analysis) = Cardinality(MatchingPairs)
        /\ UniqueIds => Len(current_analysis) = Cardinality(MatchedQuestions)
        /\ \A r \in Range(current_analysis) :
              /\ \E q \in Range(quiz_data.rows) : q.id = r.id
              /\ \E s \in Range(submission_data.rows) : s.questionId = r.id

C2_Witness ==
    /\ pc = "returned"
    /\ UniqueIds
    /\ Len(current_analysis) = 1
    /\ Len(quiz_data.rows) = 2
    /\ Len(submission_data.rows) = 2
    /\ \E s \in Range(submission_data.rows) :
          \A q \in Range(quiz_data.rows) : q.id # s.questionId

\* C6: in every returned row, correct is true exactly when the row's
\* correctOptionId equals its selectedOptionId, these being the question's
\* correct option and the matching submission entry's selected option.
C6_CorrectIffOptionsEqual ==
    pc = "returned" =>
        \A r \in Range(current_analysis) :
            /\ r.correct <=> (r.correctOptionId = r.selectedOptionId)
            /\ \E q \in Range(quiz_data.rows), s \in Range(submission_data.rows) :
                  /\ q.id = r.id /\ s.questionId = r.id
                  /\ q.correctOptionId = r.correctOptionId
                  /\ s.selectedOptionId = r.selectedOptionId

C6_Witness ==
    /\ pc = "returned"
    /\ \E r \in Range(current_analysis) : r.correct
    /\ \E r \in Range(current_analysis) : ~r.correct

-----------------------------------------------------------------------------
(* rec.py: analyze_historical_data *)

\* most attempts in a history
MaxAttempts == 2
\* longest question list embedded in an attempt
MaxHistQuestions == 2

HistIds == {1, 2}
HistQuestionRecords ==
    {[id |-> i, topic |-> td[1], difficulty |-> td[2], correctOptionId |-> 1] :
        i \in HistIds,
        td \in {<<"algebra", "easy">>, <<"biology", "easy">>, <<"biology", "hard">>}}

\* a JSON object is a dict in insertion order with distinct keys: a sequence
\* of <<key, value>> pairs
Dicts(keys, values) ==
    {d \in SeqsUpTo(keys \X values, Cardinality(keys)) :
        \A i, j \in DOMAIN d : d[i][1] = d[j][1] => i = j}

\* the dicts whose keys come in the order of the sequence keyseq
DictsInKeyOrder(keyseq, values) ==
    LET Pos(k) == CHOOSE p \in DOMAIN keyseq : keyseq[p] = k
    IN {d \in Dicts(Range(keyseq), values) :
          \A i, j \in DOMAIN d : i < j => Pos(d[i][1]) < Pos(d[j][1])}

Keys(d) == {d[i][1] : i \in DOMAIN d}
HasKey(d, k) == \E i \in DOMAIN d : d[i][1] = k
Get(d, k) == d[CHOOSE i \in DOMAIN d : d[i][1] = k][2]

Attempt(date, score, responseMap, questions) ==
    [date |-> date, score |-> score, responseMap |-> responseMap,
     questions |-> questions]

\* the historical document: has_date / has_score tell whether the frame built
\* from the attempts has the column at all
HistPayload(kind, rows, has_date, has_score) ==
    [kind |-> kind, rows |-> rows, has_date |-> has_date, has_score |-> has_score]

\* next((q for q in row['questions'] if q['id'] == question_id), None):
\* <<q>> for the first question with the id, <<>> for None
RECURSIVE FirstQuestion(_, _)
FirstQuestion(questions, question_id) ==
    IF questions = <<>> THEN <<>>
    ELSE IF Head(questions).id = question_id THEN <<Head(questions)>>
    ELSE FirstQuestion(Tail(questions), question_id)

\* question.get('timeSpent', 0)
QuestionTimeSpent(question) ==
    IF "timeSpent" \in DOMAIN question THEN question.timeSpent ELSE 0

\* int(correct)
BoolToInt(b) == IF b THEN 1 ELSE 0

\* counts an answer in total only when it is correct
AddAnswerTotalOnlyIfCorrect(perf, key, correct, time_spent) ==
    IF \E i \in DOMAIN perf : perf[i].key = key
    THEN [i \in DOMAIN perf |->
            IF perf[i].key = key
            THEN [key |-> key, correct |-> perf[i].correct + BoolToInt(correct),
                  total |-> perf[i].total + BoolToInt(correct),
                  time_spent |-> perf[i].time_spent + time_spent]
            ELSE perf[i]]
    ELSE Append(perf, [key |-> key, correct |-> BoolToInt(correct),
                       total |-> BoolToInt(correct), time_spent |-> time_spent])

\* lines 61-63 (65-67): the defaultdict entry of key, made on first use with
\* zeros, gets correct += int(correct), total += 1, time_spent += time_spent
AddAnswer(perf, key, correct, time_spent) ==
    IF \E i \in DOMAIN perf : perf[i].key = key
    THEN [i \in DOMAIN perf |->
            IF perf[i].key = key
            THEN [key |-> key, correct |-> perf[i].correct + BoolToInt(correct),
                  total |-> perf[i].total + 1,
                  time_spent |-> perf[i].time_spent + time_spent]
            ELSE perf[i]]
    ELSE Append(perf, [key |-> key, correct |-> BoolToInt(correct),
                       total |-> 1, time_spent |-> time_spent])

\* lines 56-67, for one resolved question
AccumulateAnswer(acc, question, selected_option) ==
    LET correct == question.correctOptionId = selected_option
        time_spent == QuestionTimeSpent(question)
    IN [topic_performance |->
            AddAnswer(acc.topic_performance, question.topic, correct, time_spent),
        difficulty_performance |->
            AddAnswer(acc.difficulty_performance, question.difficulty, correct,
                      time_spent)]

\* lines 53-67: the items of one attempt's responseMap, in order
RECURSIVE AccumulateResponses(_, _, _)
AccumulateResponses(acc, responseMap, questions) ==
    IF responseMap = <<>> THEN acc
    ELSE LET question == FirstQuestion(questions, Head(responseMap)[1])
         IN AccumulateResponses(
                IF question # <<>>
                THEN AccumulateAnswer(acc, question[1], Head(responseMap)[2])
                ELSE acc,
                Tail(responseMap), questions)

\* lines 52-67: the attempts, in order
RECURSIVE AccumulateRows(_, _)
AccumulateRows(acc, rows) ==
    IF rows = <<>> THEN acc
    ELSE AccumulateRows(
            AccumulateResponses(acc, Head(rows).responseMap, Head(rows).questions),
            Tail(rows))

\* lines 69-70: {key: data['correct'] / data['total']}
Accuracy(perf) == [i \in DOMAIN perf |-> <<perf[i].key, <<perf[i].correct, perf[i].total>>>>]

Raised == [raised |-> TRUE]

analyze_historical_data(historical_data_arg) ==
    IF \/ historical_data_arg.kind # "ok"
       \/ historical_data_arg.rows = <<>>
       \/ ~historical_data_arg.has_date
       \/ ~historical_data_arg.has_score
    THEN Raised
    ELSE LET rows == historical_data_arg.rows
             acc == AccumulateRows([topic_performance |-> <<>>,
                                    difficulty_performance |-> <<>>], rows)
         IN IF \E e \in Range(acc.topic_performance)
                    \cup Range(acc.difficulty_performance) : e.total = 0
            THEN Raised     \* ZeroDivisionError
            ELSE [raised |-> FALSE,
                  avg_score |-> Mean([i \in DOMAIN rows |-> rows[i].score]),
                  topic_accuracy |-> Accuracy(acc.topic_performance),
                  difficulty_accuracy |-> Accuracy(acc.difficulty_performance),
                  historical_df |-> [i \in DOMAIN rows |->
                                        [date |-> rows[i].date, score |-> rows[i].score]],
                  topic_performance |-> acc.topic_performance,
                  difficulty_performance |-> acc.difficulty_performance]

-----------------------------------------------------------------------------
(* analyze_historical_data applied to every bounded history *)

\* a history whose attempts, given as <<date, score, responseMap>>, embed the
\* same question list
History(attempts, bank) ==
    [i \in DOMAIN attempts |->
        Attempt(attempts[i][1], attempts[i][2], attempts[i][3], bank)]

AttemptsOver(dates, scores, n) ==
    SeqsUpTo(dates \X scores \X DictsInKeyOrder(<<1, 2>>, OptionIds), n)

InitHist ==
    /\ pc = "call"
    /\ \/ historical_data = HistPayload("nokey", <<>>, FALSE, FALSE)
       \/ \E a \in AttemptsOver({0}, {60}, MaxAttempts),
             bank \in SeqsUpTo(HistQuestionRecords, MaxHistQuestions) :
             historical_data = HistPayload("ok", History(a, bank), TRUE, TRUE)
       \/ \E a \in AttemptsOver({0}, {60}, 1), d \in BOOLEAN :
             historical_data = HistPayload("ok", History(a, <<>>), d, FALSE)
    /\ hist_result = Unset
    /\ quiz_data = Unset /\ submission_data = Unset /\ current_analysis = Unset
    /\ now = 0 /\ insights = Unset /\ recommendations = Unset /\ output = <<>>
    /\ prev_run = Unset /\ current_quiz = Unset /\ historical_quizzes = Unset

CallAnalyzeHistoricalData ==
    /\ pc = "call"
    /\ hist_result' = analyze_historical_data(historical_data)
    /\ pc' = IF hist_result'.raised THEN "raised" ELSE "returned"
    /\ UNCHANGED <<quiz_data, submission_data, historical_data, now,
                   current_analysis, insights, recommendations, output, prev_run,
                   current_quiz, historical_quizzes>>

NextHist == CallAnalyzeHistoricalData

SpecHist == InitHist /\ [][NextHist]_vars

\* the answers of the history that resolve to a question of their attempt,
\* as <<attempt, position in the responseMap>>
ResolvedAnswers ==
    {ai \in UNION {{a} \X DOMAIN historical_data.rows[a].responseMap :
                      a \in DOMAIN historical_data.rows} :
        FirstQuestion(historical_data.rows[ai[1]].questions,
                      historical_data.rows[ai[1]].responseMap[ai[2]][1]) # <<>>}

AnswerQuestion(ai) ==
    FirstQuestion(historical_data.rows[ai[1]].questions,
                  historical_data.rows[ai[1]].responseMap[ai[2]][1])[1]

CorrectAnswers ==
    {ai \in ResolvedAnswers :
        AnswerQuestion(ai).correctOptionId =
            historical_data.rows[ai[1]].responseMap[ai[2]][2]}

\* sum over the keys of accuracy x total
WeightedSum(accuracy, perf) ==
    SumSeq([i \in DOMAIN perf |->
              (Get(accuracy, perf[i].key)[1] * perf[i].total)
                  \div Get(accuracy, perf[i].key)[2]])

PerfInvariant(perf, accuracy, field) ==
    /\ \A i, j \in DOMAIN perf : perf[i].key = perf[j].key => i = j
    /\ Keys(accuracy) = {e.key : e \in Range(perf)}
    /\ \A e \in Range(perf) :
          /\ e.total >= 1
          /\ 0 <= e.correct /\ e.correct <= e.total
          /\ e.total = Cardinality({ai \in ResolvedAnswers : AnswerQuestion(ai)[field] = e.key})
          /\ e.correct = Cardinality({ai \in CorrectAnswers : AnswerQuestion(ai)[field] = e.key})
          /\ LET a == Get(accuracy, e.key)
             IN a[2] > 0 /\ 0 <= a[1] /\ a[1] <= a[2]
                /\ a[1] * e.total = e.correct * a[2]
    /\ SumSeq([i \in DOMAIN perf |-> perf[i].total]) = Cardinality(ResolvedAnswers)
    /\ WeightedSum(accuracy, perf) = Cardinality(CorrectAnswers)

\* C3: when the accuracies are computed, every key of the topic and of the
\* difficulty accumulator has total >= 1 and 0 <= correct <= total (so the
\* division is defined and each accuracy is in [0, 1]), its counts are the
\* numbers of resolved and of correct answers with that key, and the sum over
\* the keys of accuracy x total is the number of correct resolved answers of
\* the whole history (the weighted average is the overall accuracy).
C3_AccuracyWellDefined ==
    /\ pc = "returned" =>
          /\ PerfInvariant(hist_result.topic_performance, hist_result.topic_accuracy,
                           "topic")
          /\ PerfInvariant(hist_result.difficulty_performance,
                           hist_result.difficulty_accuracy, "difficulty")
    /\ pc = "raised" =>
          \/ historical_data.kind # "ok" \/ historical_data.rows = <<>>
          \/ ~historical_data.has_date \/ ~historical_data.has_score

C3_Witness ==
    /\ pc = "returned"
    /\ Len(hist_result.topic_performance) = 2
    /\ \E e \in Range(hist_result.topic_performance) : e.total = 2 /\ e.correct = 1
    /\ Len(hist_result.difficulty_performance) = 1

-----------------------------------------------------------------------------
(* rec.py: generate_insights *)

\* the distinct values of a sequence, in order of first appearance
RECURSIVE Distinct(_)
Distinct(s) ==
    IF s = <<>> THEN <<>>
    ELSE LET d == Distinct(SubSeq(s, 1, Len(s) - 1))
         IN IF s[Len(s)] \in Range(d) THEN d ELSE Append(d, s[Len(s)])

Count(s, v) == Cardinality({i \in DOMAIN s : s[i] = v})

\* <<value, key>> put into the sequence s, sorted by ascending key, after
\* every element whose key is not greater (a stable insertion: elements with
\* equal keys keep their order)
RECURSIVE InsertSorted(_, _)
InsertSorted(s, x) ==
    IF s = <<>> THEN <<x>>
    ELSE IF Less(x[2], Head(s)[2]) THEN <<x>> \o s
    ELSE <<Head(s)>> \o InsertSorted(Tail(s), x)

\* a stable sort of <<value, key>> pairs by ascending key
RECURSIVE StableSort(_)
StableSort(s) ==
    IF s = <<>> THEN <<>>
    ELSE InsertSorted(StableSort(SubSeq(s, 1, Len(s) - 1)), s[Len(s)])

\* current_analysis[~current_analysis['correct']]['topic'].value_counts()
\*     .index.tolist(): the topics of the incorrect rows, most frequent first,
\* equally frequent ones in order of first appearance
WeakAreas(rows) ==
    LET Incorrect(r) == ~r.correct
        wrong == SelectSeq(rows, Incorrect)
        topics == [i \in DOMAIN wrong |-> wrong[i].topic]
        found == Distinct(topics)
        counted == StableSort([i \in DOMAIN found |->
                                  <<found[i], <<0 - Count(topics, found[i]), 1>>>>])
    IN [i \in DOMAIN counted |-> counted[i][1]]

\* (datetime.now() - historical_df['date']).dt.days: whole days, rounded down
DaysAgo(clock, date) == (clock - date) \div TicksPerDay

\* the sign of LinearRegression().fit(X, y).coef_[0]: the least-squares slope
\* is (n*Sxy - Sx*Sy) / (n*Sxx - Sx*Sx), and 0 when every x is the same
SlopeSign(x, y) ==
    LET n == Len(x)
        cov == n * SumSeq([i \in DOMAIN x |-> x[i] * y[i]]) - SumSeq(x) * SumSeq(y)
        var == n * SumSeq([i \in DOMAIN x |-> x[i] * x[i]]) - SumSeq(x) * SumSeq(x)
    IN IF var = 0 \/ cov = 0 THEN 0 ELSE IF cov > 0 THEN 1 ELSE -1

\* lines 81-85
Trend(historical_df, clock) ==
    LET X == [i \in DOMAIN historical_df |-> DaysAgo(clock, historical_df[i].date)]
        y == [i \in DOMAIN historical_df |-> historical_df[i].score]
    IN IF SlopeSign(X, y) > 0 THEN "improving" ELSE "declining"

\* current_analysis.groupby('difficulty')['correct'].mean()
CurrentDifficultyPerformance(rows) ==
    [d \in {r.difficulty : r \in Range(rows)} |->
        LET OfLevel(r) == r.difficulty = d
            group == SelectSeq(rows, OfLevel)
        IN Mean([i \in DOMAIN group |-> BoolToInt(group[i].correct)])]

\* current_analysis['correct'].mean() * 100
CurrentScore(rows) == Times(Mean([i \in DOMAIN rows |-> BoolToInt(rows[i].correct)]), Percent)

\* avg_score * 100
AverageScore(avg) == Times(avg, Percent)

generate_insights(rows, avg, topic_acc, difficulty_acc, historical_df, clock) ==
    [current_score |-> CurrentScore(rows),
     average_score |-> AverageScore(avg),
     weak_areas |-> WeakAreas(rows),
     topic_accuracy |-> topic_acc,
     difficulty_accuracy |-> difficulty_acc,
     current_difficulty_performance |-> CurrentDifficultyPerformance(rows),
     performance_trend |-> Trend(historical_df, clock)]

-----------------------------------------------------------------------------
(* rec.py: create_recommendations *)

\* a recommendation, by the rule that wrote it and what it names
Rec(kind, about) == [kind |-> kind, about |-> about]

Take(s, n) == SubSeq(s, 1, IF Len(s) < n THEN Len(s) ELSE n)

\* line 118
difficulty_levels == <<"easy", "medium", "hard">>

\* a fourth level looked at as well
LevelsWithExpert(ins) == difficulty_levels \o <<"expert">>

\* the levels the difficulty rule looks at (line 122)
LevelsExamined(ins) == difficulty_levels

\* the weak areas without the cut to three
WeakAreasUncut(ins) == ins.weak_areas

\* insights['weak_areas'][:3]
WeakAreasReported(ins) == Take(ins.weak_areas, TopN)

\* line 107
RegressionRule(ins) ==
    IF Less(ins.current_score, ins.average_score)
    THEN <<Rec("regression", "overall")>> ELSE <<>>

\* lines 110-111
WeakTopicRule(ins) ==
    LET w == WeakAreasReported(ins)
    IN [i \in DOMAIN w |-> Rec("weak_topic", w[i])]

\* lines 113-115: sorted() by accuracy is stable, [:3] keeps the lowest three
LowAccuracyRule(ins) ==
    LET low == Take(StableSort(ins.topic_accuracy), TopN)
    IN [i \in DOMAIN low |-> Rec("low_accuracy", low[i][1])]

\* lines 122-125
DifficultyRule(ins) ==
    LET current_performance == ins.current_difficulty_performance
        historical_performance == ins.difficulty_accuracy
        levels == LevelsExamined(ins)
        Dropped(d) ==
            /\ d \in DOMAIN current_performance
            /\ HasKey(historical_performance, d)
            /\ Less(current_performance[d], Get(historical_performance, d))
        dropped == SelectSeq(levels, Dropped)
    IN [i \in DOMAIN dropped |-> Rec("difficulty", dropped[i])]

\* lines 128-129
TrendRule(ins) == <<Rec("trend", ins.performance_trend)>>

create_recommendations(ins) ==
    RegressionRule(ins) \o WeakTopicRule(ins) \o LowAccuracyRule(ins)
        \o DifficultyRule(ins) \o TrendRule(ins)

-----------------------------------------------------------------------------
(* create_recommendations applied to bounded insight records *)

\* most weak areas in an insight record
MaxWeak == 4

TopicOrder == <<"algebra", "biology", "chemistry", "dynamics">>
DifficultyOrder == <<"easy", "medium", "hard", "expert">>

\* accuracies 0 and 1/2
Accuracies == {<<0, 1>>, <<1, 2>>}

\* sequences over S without repetition
SeqsWithoutRepetition(S, n) ==
    {w \in SeqsUpTo(S, n) : \A i, j \in DOMAIN w : w[i] = w[j] => i = j}

PartialFunctions(S, T) == UNION {[D -> T] : D \in SUBSET S}

Insights(cs, as, weak, tacc, dacc, cdp, trend) ==
    [current_score |-> cs, average_score |-> as, weak_areas |-> weak,
     topic_accuracy |-> tacc, difficulty_accuracy |-> dacc,
     current_difficulty_performance |-> cdp, performance_trend |-> trend]

\* current scores: nothing answered (NaN), 50%, 100%; the average is 75%
CurrentScores == {<<0, 0>>, <<100, 2>>, <<200, 2>>}
AverageScores == {<<150, 2>>}
Trends == {"improving", "declining"}

InitRec ==
    /\ pc = "call"
    /\ \E cs \in CurrentScores, as \in AverageScores, trend \in Trends :
          \* records rich in topics, with the three listed levels all dropped or
          \* no level at all
          \/ \E weak \in SeqsWithoutRepetition(Topics, MaxWeak),
                tacc \in DictsInKeyOrder(TopicOrder, Accuracies),
                drop \in BOOLEAN :
                insights = Insights(cs, as, weak, tacc,
                    IF drop THEN [i \in 1..3 |-> <<DifficultyOrder[i], <<1, 2>>>>] ELSE <<>>,
                    IF drop THEN [d \in Range(difficulty_levels) |-> <<0, 1>>]
                            ELSE [d \in {} |-> <<0, 1>>],
                    trend)
          \* records rich in difficulty levels
          \/ \E dacc \in DictsInKeyOrder(DifficultyOrder, Accuracies),
                cdp \in PartialFunctions(Difficulties, Accuracies) :
                insights = Insights(cs, as, <<>>, <<>>, dacc, cdp, trend)
    /\ recommendations = Unset
    /\ quiz_data = Unset /\ submission_data = Unset /\ current_analysis = Unset
    /\ historical_data = Unset /\ hist_result = Unset
    /\ now = 0 /\ output = <<>>
    /\ prev_run = Unset /\ current_quiz = Unset /\ historical_quizzes = Unset

CallCreateRecommendations ==
    /\ pc = "call"
    /\ recommendations' = create_recommendations(insights)
    /\ pc' = "returned"
    /\ UNCHANGED <<quiz_data, submission_data, historical_data, now,
                   current_analysis, hist_result, insights, output, prev_run,
                   current_quiz, historical_quizzes>>

NextRec == CallCreateRecommendations

SpecRec == InitRec /\ [][NextRec]_vars

KindRank(kind) ==
    CASE kind = "regression" -> 1
      [] kind = "weak_topic" -> 2
      [] kind = "low_accuracy" -> 3
      [] kind = "difficulty" -> 4
      [] kind = "trend" -> 5

CountKind(recs, kind) == Cardinality({i \in DOMAIN recs : recs[i].kind = kind})

\* C4: the list has at most 11 entries: at most 1 regression, 3 weak-topic,
\* 3 low-accuracy and 3 difficulty entries and exactly 1 trend remark, in
\* that order of categories, the trend remark last.
C4_AtMostElevenInOrder ==
    pc = "returned" =>
        /\ Len(recommendations) <= 11
        /\ Len(recommendations) >= 1
        /\ CountKind(recommendations, "regression") <= 1
        /\ CountKind(recommendations, "weak_topic") <= 3
        /\ CountKind(recommendations, "low_accuracy") <= 3
        /\ CountKind(recommendations, "difficulty") <= 3
        /\ CountKind(recommendations, "trend") = 1
        /\ recommendations[Len(recommendations)] = Rec("trend", insights.performance_trend)
        /\ \A i, j \in DOMAIN recommendations :
              i < j => KindRank(recommendations[i].kind) <= KindRank(recommendations[j].kind)

C4_Witness ==
    /\ pc = "returned"
    /\ Len(recommendations) = 11
    /\ Len(insights.weak_areas) = 4
    /\ Len(insights.topic_accuracy) = 4

RecommendsLevel(d) == \E r \in Range(recommendations) : r = Rec("difficulty", d)

LevelDropped(d) ==
    /\ d \in DOMAIN insights.current_difficulty_performance
    /\ HasKey(insights.difficulty_accuracy, d)
    /\ Less(insights.current_difficulty_performance[d],
            Get(insights.difficulty_accuracy, d))

\* C10 as stated: for every level present on both sides, whatever its label,
\* the focus recommendation is there exactly when the current accuracy is
\* strictly lower than the historical one.
C10_AnyLevel ==
    pc = "returned" =>
        \A d \in Difficulties : RecommendsLevel(d) <=> LevelDropped(d)

\* C10, amended: for the levels "easy", "medium" and "hard" the focus
\* recommendation is there exactly when the level is present on both sides
\* with a strictly lower current accuracy; a level with any other label never
\* gets one.
C10_ListedLevelsOnly ==
    pc = "returned" =>
        \A d \in Difficulties :
            RecommendsLevel(d) <=> (d \in Range(difficulty_levels) /\ LevelDropped(d))

C10_Witness ==
    /\ pc = "returned"
    /\ LevelDropped("expert") /\ ~RecommendsLevel("expert")
    /\ LevelDropped("hard") /\ RecommendsLevel("hard")
    /\ "easy" \in DOMAIN insights.current_difficulty_performance
    /\ HasKey(insights.difficulty_accuracy, "easy")
    /\ ~LevelDropped("easy") /\ ~RecommendsLevel("easy")

-----------------------------------------------------------------------------
(* generate_insights and create_recommendations, run twice on the same
   analysis results while the clock moves *)

\* attempt dates are the ticks 0..MaxDate
MaxDate == 3
\* the clock starts after the last date and moves at most MaxTicks ticks
MaxTicks == 2

Scores == {60, 70, 80}

\* a returned row of analyze_current_quiz, answered right or wrong
CurrentRow(topic, difficulty, selected) ==
    DeriveColumns(
        JoinRow([id |-> 1, topic |-> topic, difficulty |-> difficulty,
                 correctOptionId |-> 1],
                [questionId |-> 1, selectedOptionId |-> selected]),
        CHOOSE x \in Durations : TRUE)

\* the attempts of spec.md section 8: scores 60, 70, 80 at 10, 5 and 1 days
\* before the first run
ExampleAttempts(clock) ==
    << <<clock - 10 * TicksPerDay, 60, <<>>>>,
       <<clock - 5 * TicksPerDay, 70, <<>>>>,
       <<clock - 1 * TicksPerDay, 80, <<>>>> >>

\* a current quiz with 4 answers right out of 5: 80%
ExampleRows ==
    [i \in 1..5 |-> CurrentRow("algebra", "easy", IF i = 5 THEN 2 ELSE 1)]

FirstClock == MaxDate + 1

NoRun == [done |-> FALSE]

InitInsight ==
    /\ pc = "generate_insights"
    /\ now = FirstClock
    /\ \/ \E a \in SeqsUpTo((0..MaxDate) \X Scores \X {<<>>}, MaxAttempts),
             rows \in SeqsUpTo({CurrentRow("algebra", "easy", o) : o \in OptionIds},
                               MaxRows) :
             /\ a # <<>>
             /\ hist_result =
                   analyze_historical_data(HistPayload("ok", History(a, <<>>), TRUE, TRUE))
             /\ current_analysis = rows
       \/ /\ hist_result =
                analyze_historical_data(
                    HistPayload("ok", History(ExampleAttempts(FirstClock), <<>>), TRUE, TRUE))
          /\ current_analysis \in {ExampleRows, SubSeq(ExampleRows, 4, 5)}
    /\ insights = Unset /\ recommendations = Unset
    /\ prev_run = NoRun
    /\ quiz_data = Unset /\ submission_data = Unset /\ historical_data = Unset
    /\ output = <<>> /\ current_quiz = Unset /\ historical_quizzes = Unset

\* time passes before a run reads the clock
ClockTick ==
    /\ pc = "generate_insights"
    /\ now < FirstClock + MaxTicks
    /\ now' = now + 1
    /\ UNCHANGED <<pc, quiz_data, submission_data, historical_data,
                   current_analysis, hist_result, insights, recommendations,
                   output, prev_run, current_quiz, historical_quizzes>>

CallGenerateInsights ==
    /\ pc = "generate_insights"
    /\ insights' = generate_insights(current_analysis, hist_result.avg_score,
                                     hist_result.topic_accuracy,
                                     hist_result.difficulty_accuracy,
                                     hist_result.historical_df, now)
    /\ pc' = "create_recommendations"
    /\ UNCHANGED <<quiz_data, submission_data, historical_data, now,
                   current_analysis, hist_result, recommendations, output,
                   prev_run, current_quiz, historical_quizzes>>

CallCreateRecommendationsOfRun ==
    /\ pc = "create_recommendations"
    /\ recommendations' = create_recommendations(insights)
    /\ pc' = "done"
    /\ UNCHANGED <<quiz_data, submission_data, historical_data, now,
                   current_analysis, hist_result, insights, output, prev_run,
                   current_quiz, historical_quizzes>>

\* the script is started again on the same data
RunAgain ==
    /\ pc = "done"
    /\ ~prev_run.done
    /\ prev_run' = [done |-> TRUE, insights |-> insights,
                    recommendations |-> recommendations]
    /\ insights' = Unset /\ recommendations' = Unset
    /\ pc' = "generate_insights"
    /\ UNCHANGED <<quiz_data, submission_data, historical_data, now,
                   current_analysis, hist_result, output, current_quiz,
                   historical_quizzes>>

NextInsight ==
    \/ ClockTick
    \/ CallGenerateInsights
    \/ CallCreateRecommendationsOfRun
    \/ RunAgain

SpecInsight == InitInsight /\ [][NextInsight]_vars

InsightsComputed == pc \in {"create_recommendations", "done"}

\* the ages in whole days of the attempts, as the run saw them
AgesSeen ==
    [i \in DOMAIN hist_result.historical_df |->
        DaysAgo(now, hist_result.historical_df[i].date)]

\* at least two attempts, on different days, and the older an attempt the
\* lower its score
ScoresIncreaseOverTime ==
    LET df == hist_result.historical_df
    IN /\ Len(df) >= 2
       /\ \A i, j \in DOMAIN df :
             /\ i # j => AgesSeen[i] # AgesSeen[j]
             /\ AgesSeen[i] > AgesSeen[j] => df[i].score < df[j].score

ScoresDecreaseOverTime ==
    LET df == hist_result.historical_df
    IN /\ Len(df) >= 2
       /\ \A i, j \in DOMAIN df :
             /\ i # j => AgesSeen[i] # AgesSeen[j]
             /\ AgesSeen[i] > AgesSeen[j] => df[i].score > df[j].score

\* C1: a history whose scores strictly increase over time gives the trend
\* "improving", one whose scores strictly decrease gives "declining".
C1_TrendFollowsScores ==
    (InsightsComputed /\ ~prev_run.done) =>
        /\ ScoresIncreaseOverTime => insights.performance_trend = "improving"
        /\ ScoresDecreaseOverTime => insights.performance_trend = "declining"

\* C7: a second run on the same data ends with the same insight record and
\* the same recommendations as the first, whenever it is run.
C7_RunsAgree ==
    (pc = "done" /\ prev_run.done) =>
        /\ insights = prev_run.insights
        /\ recommendations = prev_run.recommendations

RecommendsRegression ==
    /\ recommendations # <<>>
    /\ recommendations[1] = Rec("regression", "overall")

\* C9: the regression recommendation is there (first) exactly when the
\* current score, in percent, is lower than the average of the historical
\* scores, which are on the same scale (60, 70, 80: average 70).
C9_RegressionIffBelowAverage ==
    pc = "done" =>
        (RecommendsRegression <=>
            Less(CurrentScore(current_analysis), hist_result.avg_score))

-----------------------------------------------------------------------------
(* rec.py: main, the console entry point *)

\* longest question list and submission list a run of main fetches
MaxMainRows == 1

\* what the three endpoints may answer
MainQuizDocs == QuizPayloads({1, 2}, {"algebra"}, {"easy"}, MaxMainRows)
MainSubmissionDocs == SubmissionPayloads({1, 2}, MaxMainRows)
MainHistoryDocs ==
    {HistPayload("invalid", <<>>, FALSE, FALSE), HistPayload("nokey", <<>>, FALSE, FALSE)}
    \cup {HistPayload("ok",
                      History(a, <<[id |-> 1, topic |-> "algebra",
                                    difficulty |-> "easy", correctOptionId |-> 1]>>),
                      TRUE, TRUE) :
            a \in SeqsUpTo({0, 1} \X {60, 80} \X {<< <<1, 1>> >>}, MaxAttempts)}
    \cup {HistPayload("ok", History(<< <<0, 60, <<>>>> >>, <<>>), d, sc) :
            d \in BOOLEAN, sc \in BOOLEAN}
MainClocks == {2, 3}

\* the lines main prints, in the order of the program text: line 136, the
\* line fetch_data prints for each document, lines 141-150, and the section
\* headers of lines 154-172
Transcript ==
    <<"Fetching data...", "Data fetched", "Data fetched", "Data fetched",
      "Analyzing current quiz...", "Analyzing historical data...",
      "Generating insights...", "Creating recommendations...",
      "--- Insights ---", "--- Topic Accuracy ---", "--- Difficulty Accuracy ---",
      "--- Current Difficulty Performance ---", "--- Recommendations ---">>

\* the stages of main in program order
Stages ==
    <<"fetch_quiz", "fetch_submission", "fetch_history", "analyze_current_quiz",
      "analyze_historical_data", "generate_insights", "create_recommendations",
      "print_report", "exit">>

StageRank(p) == CHOOSE i \in DOMAIN Stages : Stages[i] = p

\* a fetch that hands every body on, JSON or not
FetchNeverRaises(doc) == FALSE

\* fetch_data raises ValueError when the body is not JSON (lines 16-17)
FetchRaises(doc) == doc.kind = "invalid"

Init ==
    /\ pc = "fetch_quiz"
    /\ quiz_data = Unset /\ submission_data = Unset /\ historical_data = Unset
    /\ current_analysis = Unset /\ hist_result = Unset
    /\ insights = Unset /\ recommendations = Unset
    /\ output = <<>>
    /\ now = 0
    /\ prev_run = Unset /\ current_quiz = Unset /\ historical_quizzes = Unset

\* lines 136-137
FetchQuiz ==
    /\ pc = "fetch_quiz"
    /\ \E doc \in MainQuizDocs :
          IF FetchRaises(doc)
          THEN /\ pc' = "raised"
               /\ output' = Append(output, "Fetching data...")
               /\ UNCHANGED quiz_data
          ELSE /\ pc' = "fetch_submission"
               /\ output' = output \o <<"Fetching data...", "Data fetched">>
               /\ quiz_data' = doc
    /\ UNCHANGED <<submission_data, historical_data, now, current_analysis,
                   hist_result, insights, recommendations, prev_run, current_quiz,
                   historical_quizzes>>

\* line 138
FetchSubmission ==
    /\ pc = "fetch_submission"
    /\ \E doc \in MainSubmissionDocs :
          IF FetchRaises(doc)
          THEN /\ pc' = "raised"
               /\ UNCHANGED <<output, submission_data>>
          ELSE /\ pc' = "fetch_history"
               /\ output' = Append(output, "Data fetched")
               /\ submission_data' = doc
    /\ UNCHANGED <<quiz_data, historical_data, now, current_analysis, hist_result,
                   insights, recommendations, prev_run, current_quiz,
                   historical_quizzes>>

\* line 139
FetchHistory ==
    /\ pc = "fetch_history"
    /\ \E doc \in MainHistoryDocs :
          IF FetchRaises(doc)
          THEN /\ pc' = "raised"
               /\ UNCHANGED <<output, historical_data>>
          ELSE /\ pc' = "analyze_current_quiz"
               /\ output' = Append(output, "Data fetched")
               /\ historical_data' = doc
    /\ UNCHANGED <<quiz_data, submission_data, now, current_analysis, hist_result,
                   insights, recommendations, prev_run, current_quiz,
                   historical_quizzes>>

\* lines 141-142
AnalyzeCurrent ==
    /\ pc = "analyze_current_quiz"
    /\ output' = Append(output, "Analyzing current quiz...")
    /\ LET r == analyze_current_quiz(quiz_data, submission_data)
       IN IF r.raised
          THEN pc' = "raised" /\ UNCHANGED current_analysis
          ELSE pc' = "analyze_historical_data" /\ current_analysis' = r.rows
    /\ UNCHANGED <<quiz_data, submission_data, historical_data, now, hist_result,
                   insights, recommendations, prev_run, current_quiz,
                   historical_quizzes>>

\* lines 144-145
AnalyzeHistory ==
    /\ pc = "analyze_historical_data"
    /\ output' = Append(output, "Analyzing historical data...")
    /\ LET r == analyze_historical_data(historical_data)
       IN IF r.raised
          THEN pc' = "raised" /\ UNCHANGED hist_result
          ELSE pc' = "generate_insights" /\ hist_result' = r
    /\ UNCHANGED <<quiz_data, submission_data, historical_data, now,
                   current_analysis, insights, recommendations, prev_run,
                   current_quiz, historical_quizzes>>

\* lines 147-148; generate_insights reads the clock
GenerateInsights ==
    /\ pc = "generate_insights"
    /\ output' = Append(output, "Generating insights...")
    /\ \E clock \in MainClocks :
          /\ now' = clock
          /\ insights' = generate_insights(current_analysis, hist_result.avg_score,
                                           hist_result.topic_accuracy,
                                           hist_result.difficulty_accuracy,
                                           hist_result.historical_df, clock)
    /\ pc' = "create_recommendations"
    /\ UNCHANGED <<quiz_data, submission_data, historical_data, current_analysis,
                   hist_result, recommendations, prev_run, current_quiz,
                   historical_quizzes>>

\* lines 150-151
CreateRecommendations ==
    /\ pc = "create_recommendations"
    /\ output' = Append(output, "Creating recommendations...")
    /\ recommendations' = create_recommendations(insights)
    /\ pc' = "print_report"
    /\ UNCHANGED <<quiz_data, submission_data, historical_data, now,
                   current_analysis, hist_result, insights, prev_run, current_quiz,
                   historical_quizzes>>

\* lines 154-174
PrintReport ==
    /\ pc = "print_report"
    /\ output' = output \o SubSeq(Transcript, 9, 13)
    /\ pc' = "exit"
    /\ UNCHANGED <<quiz_data, submission_data, historical_data, now,
                   current_analysis, hist_result, insights, recommendations,
                   prev_run, current_quiz, historical_quizzes>>

Next ==
    \/ FetchQuiz
    \/ FetchSubmission
    \/ FetchHistory
    \/ AnalyzeCurrent
    \/ AnalyzeHistory
    \/ GenerateInsights
    \/ CreateRecommendations
    \/ PrintReport

Spec == Init /\ [][Next]_vars

IsPrefix(s, t) == Len(s) <= Len(t) /\ s = SubSeq(t, 1, Len(s))

\* the number of lines printed when main stands before stage number k
PrintedBefore(k) ==
    CASE k = 1 -> 0
      [] k \in 2..8 -> k
      [] k = 9 -> 13

SectionPrinted ==
    \E i \in DOMAIN output :
        output[i] \in {"--- Insights ---", "--- Recommendations ---"}

\* C8: main runs its stages in program order, each on the results of the
\* stages before it; it gets past a fetch only with a JSON document, past
\* analyze_current_quiz only with 'questions' and 'submission' present, and
\* past analyze_historical_data only with 'quizzes', 'date' and 'score'
\* present; otherwise the error ends the run, and a run ended by an error has
\* printed no insights and no recommendations section.
C8_StagesInOrderErrorsEndRun ==
    /\ pc \in Range(Stages) \cup {"raised"}
    /\ IsPrefix(output, Transcript)
    /\ pc = "raised" => (~SectionPrinted /\ ~ENABLED Next)
    /\ pc # "raised" =>
          LET k == StageRank(pc)
          IN /\ Len(output) = PrintedBefore(k)
             /\ (quiz_data # Unset) <=> k >= 2
             /\ (submission_data # Unset) <=> k >= 3
             /\ (historical_data # Unset) <=> k >= 4
             /\ (current_analysis # Unset) => k >= 5
             /\ (hist_result # Unset) <=> k >= 6
             /\ (insights # Unset) <=> k >= 7
             /\ (recommendations # Unset) <=> k >= 8
             /\ k >= 2 => quiz_data.kind # "invalid"
             /\ k >= 3 => submission_data.kind # "invalid"
             /\ k >= 4 => historical_data.kind # "invalid"
             /\ k >= 5 =>
                   /\ quiz_data.kind = "ok" /\ submission_data.kind = "ok"
                   /\ current_analysis =
                         analyze_current_quiz(quiz_data, submission_data).rows
             /\ k >= 6 =>
                   /\ historical_data.kind = "ok"
                   /\ historical_data.has_date /\ historical_data.has_score
                   /\ hist_result = analyze_historical_data(historical_data)
             /\ k >= 7 =>
                   insights = generate_insights(current_analysis, hist_result.avg_score,
                                                hist_result.topic_accuracy,
                                                hist_result.difficulty_accuracy,
                                                hist_result.historical_df, now)
             /\ k >= 8 => recommendations = create_recommendations(insights)
             /\ SectionPrinted <=> pc = "exit"

C8_Witness ==
    /\ pc = "raised"
    /\ historical_data # Unset
    /\ historical_data.kind = "ok" /\ ~historical_data.has_date
    /\ current_analysis # Unset /\ current_analysis # <<>>
    /\ Len(output) = 6

-----------------------------------------------------------------------------
(* app.py: the dashboard *)

\* longest question list the dashboard fetches
MaxDashRows == 1

AppColumns == {"correct_answer", "selected_option", "topic", "difficulty", "time_taken"}

\* the key sets of the fetched question entries: complete, or one key short
AppColumnSets ==
    {AppColumns} \cup
    {AppColumns \ {c} : c \in {"correct_answer", "topic", "difficulty", "time_taken"}}

AppQuestionRecords ==
    [correct_answer : {1}, selected_option : OptionIds, topic : {"algebra"},
     difficulty : {1, 5}, time_taken : {60, 120}]

\* what fetch_data returns: kind "failed" is the {} returned after an error
\* (lines 15-19), "list" a JSON array, "nokey" an object without the list
AppDoc(kind, rows, cols) == [kind |-> kind, rows |-> rows, cols |-> cols]

AppQuizDocs ==
    {AppDoc(k, <<>>, {}) : k \in {"failed", "list", "nokey"}}
    \cup {AppDoc("ok", r, c) :
            r \in SeqsUpTo(AppQuestionRecords, MaxDashRows), c \in AppColumnSets}

AppSubmissionDocs == {AppDoc(k, <<>>, {}) : k \in {"failed", "nokey"}}

AppQuizRecords ==
    [quiz_id : {1}, score : {60, 80}, total_questions : {2},
     response_map : {<< <<1, 1>>, <<2, 0>> >>, << <<1, 1>>, <<2, 1>> >>}]

\* complete tells whether every attempt has all four keys
AppHistoryDocs ==
    {[kind |-> k, rows |-> <<>>, complete |-> TRUE] : k \in {"failed", "list", "nokey"}}
    \cup {[kind |-> "ok", rows |-> r, complete |-> c] :
            r \in SeqsUpTo(AppQuizRecords, MaxAttempts), c \in BOOLEAN}

\* pd.DataFrame()
EmptyFrame == [rows |-> <<>>, cols |-> {}]

\* DataFrame.empty
FrameEmpty(df) == df.rows = <<>> \/ df.cols = {}

\* lines 22-35: the frame returned and the message shown, if any
process_current_quiz(data) ==
    IF data.kind = "list"
    THEN [df |-> EmptyFrame, shown |-> <<"error">>]        \* no .get: line 33
    ELSE IF data.kind # "ok" \/ data.rows = <<>>
    THEN [df |-> EmptyFrame, shown |-> <<"warning">>]      \* lines 25-27
    ELSE IF ~({"correct_answer", "selected_option"} \subseteq data.cols)
    THEN [df |-> EmptyFrame, shown |-> <<"error">>]        \* KeyError: line 31
    ELSE [df |-> [rows |-> [i \in DOMAIN data.rows |->
                              [correct_answer |-> data.rows[i].correct_answer,
                               selected_option |-> data.rows[i].selected_option,
                               topic |-> data.rows[i].topic,
                               difficulty |-> data.rows[i].difficulty,
                               time_taken |-> data.rows[i].time_taken,
                               correct |-> data.rows[i].correct_answer
                                               = data.rows[i].selected_option]],
                  cols |-> data.cols \cup {"correct"}],
          shown |-> <<>>]

\* lines 38-57
process_historical_quizzes(data) ==
    IF data.kind # "ok"
    THEN [df |-> EmptyFrame, shown |-> <<"warning">>]      \* lines 40-42
    ELSE IF data.rows # <<>> /\ ~data.complete
    THEN [df |-> EmptyFrame, shown |-> <<"error">>]        \* KeyError: line 53
    ELSE [df |-> [rows |-> [i \in DOMAIN data.rows |->
                              [quiz_id |-> data.rows[i].quiz_id,
                               score |-> data.rows[i].score,
                               total_questions |-> data.rows[i].total_questions,
                               correct_answers |->
                                   Cardinality({j \in DOMAIN data.rows[i].response_map :
                                                   data.rows[i].response_map[j][2] = 1})]],
                  cols |-> IF data.rows = <<>> THEN {}
                           ELSE {"quiz_id", "score", "total_questions", "correct_answers"}],
          shown |-> <<>>]

\* the guard dropped: the frame is read whether it is empty or not
CurrentQuizAssumedPresent(df) == TRUE

\* if not current_quiz.empty (lines 62 and 82)
CurrentQuizPresent(df) == ~FrameEmpty(df)

\* df[~df['correct']]['topic'].value_counts().index.tolist()
AppWeakTopics(df) == WeakAreas(df.rows)

\* historical_quizzes['score'].diff().mean() > 0: the mean of the successive
\* differences, NaN when there is one attempt
AppTrend(rows) ==
    LET diffs == [i \in 1..(Len(rows) - 1) |-> rows[i + 1].score - rows[i].score]
    IN IF Less(<<0, 1>>, Mean(diffs)) THEN "improving" ELSE "declining"

\* lines 60-77: the insights, or the KeyError of a column that is not there
app_generate_insights(cq, hq) ==
    IF CurrentQuizPresent(cq) /\ ~({"correct", "topic"} \subseteq cq.cols)
    THEN [raised |-> TRUE, list |-> <<>>]
    ELSE [raised |-> FALSE,
          list |->
            (IF CurrentQuizPresent(cq)
             THEN <<Rec("weak_areas", Take(AppWeakTopics(cq), TopN)),
                    Rec("accuracy", CurrentScore(cq.rows))>>
             ELSE <<>>)
            \o (IF ~FrameEmpty(hq)
                THEN <<Rec("average", Mean([i \in DOMAIN hq.rows |-> hq.rows[i].score])),
                       Rec("trend", AppTrend(hq.rows))>>
                ELSE <<>>)]

\* lines 80-95
generate_recommendations(cq, hq) ==
    IF ~CurrentQuizPresent(cq)
    THEN [raised |-> FALSE, list |-> <<>>]
    ELSE IF ~({"correct", "topic", "difficulty", "time_taken"} \subseteq cq.cols)
    THEN [raised |-> TRUE, list |-> <<>>]
    ELSE LET avg_difficulty == Mean([i \in DOMAIN cq.rows |-> cq.rows[i].difficulty])
             avg_time == Mean([i \in DOMAIN cq.rows |-> cq.rows[i].time_taken])
         IN [raised |-> FALSE,
             list |->
               <<Rec("focus", Take(AppWeakTopics(cq), TopN))>>
               \o (IF Less(avg_difficulty, <<2, 1>>) THEN <<Rec("harder", "questions")>>
                   ELSE IF Less(<<4, 1>>, avg_difficulty) THEN <<Rec("easier", "questions")>>
                   ELSE <<>>)
               \o (IF Less(<<90, 1>>, avg_time) THEN <<Rec("time", "management")>>
                   ELSE <<>>)]

InitDash ==
    /\ pc = "fetch"
    /\ output = <<>>
    /\ quiz_data = Unset /\ submission_data = Unset /\ historical_data = Unset
    /\ current_quiz = Unset /\ historical_quizzes = Unset
    /\ insights = Unset /\ recommendations = Unset
    /\ current_analysis = Unset /\ hist_result = Unset /\ now = 0 /\ prev_run = Unset

Shown(doc) == IF doc.kind = "failed" THEN <<"error">> ELSE <<>>

\* lines 99-104
DashFetch ==
    /\ pc = "fetch"
    /\ \E q \in AppQuizDocs, sub \in AppSubmissionDocs, h \in AppHistoryDocs :
          /\ quiz_data' = q /\ submission_data' = sub /\ historical_data' = h
          /\ output' = <<"title">> \o Shown(q) \o Shown(sub) \o Shown(h)
    /\ pc' = "process"
    /\ UNCHANGED <<now, current_analysis, hist_result, insights, recommendations,
                   prev_run, current_quiz, historical_quizzes>>

\* lines 106-107
DashProcess ==
    /\ pc = "process"
    /\ LET c == process_current_quiz(quiz_data)
           h == process_historical_quizzes(historical_data)
       IN /\ current_quiz' = c.df
          /\ historical_quizzes' = h.df
          /\ output' = output \o c.shown \o h.shown
    /\ pc' = "generate"
    /\ UNCHANGED <<quiz_data, submission_data, historical_data, now,
                   current_analysis, hist_result, insights, recommendations, prev_run>>

\* lines 110-111
DashGenerate ==
    /\ pc = "generate"
    /\ LET i == app_generate_insights(current_quiz, historical_quizzes)
           r == generate_recommendations(current_quiz, historical_quizzes)
       IN IF i.raised
          THEN pc' = "crashed" /\ UNCHANGED <<insights, recommendations>>
          ELSE IF r.raised
          THEN pc' = "crashed" /\ insights' = i.list /\ UNCHANGED recommendations
          ELSE pc' = "render" /\ insights' = i.list /\ recommendations' = r.list
    /\ UNCHANGED <<quiz_data, submission_data, historical_data, now,
                   current_analysis, hist_result, output, prev_run, current_quiz,
                   historical_quizzes>>

\* lines 114-131
DashRender ==
    /\ pc = "render"
    /\ output' = output \o <<"Insights">> \o [i \in DOMAIN insights |-> "insight"]
                    \o <<"Recommendations">>
                    \o [i \in DOMAIN recommendations |-> "recommendation"]
                    \o (IF ~FrameEmpty(historical_quizzes)
                        THEN <<"Performance Trend", "chart">> ELSE <<>>)
    /\ pc' = "done"
    /\ UNCHANGED <<quiz_data, submission_data, historical_data, now,
                   current_analysis, hist_result, insights, recommendations,
                   prev_run, current_quiz, historical_quizzes>>

NextDash ==
    \/ DashFetch
    \/ DashProcess
    \/ DashGenerate
    \/ DashRender

SpecDash == InitDash /\ [][NextDash]_vars

\* the fetched current-quiz document has no questions: the fetch failed, the
\* document has no 'questions', or the list is empty
NoQuestions ==
    /\ pc # "fetch"
    /\ quiz_data.kind # "ok" \/ quiz_data.rows = <<>>

Contains(s, v) == \E i \in DOMAIN s : s[i] = v

\* C5: with no questions in the current-quiz document, process_current_quiz
\* returns an empty frame, the insights hold no current-quiz entry, the
\* recommendations are empty, main never ends in an exception, and the page
\* gets both section headers.
C5_EmptyQuizDegrades ==
    NoQuestions =>
        /\ pc # "crashed"
        /\ pc \in {"generate", "render", "done"} => FrameEmpty(current_quiz)
        /\ pc \in {"render", "done"} =>
              /\ \A e \in Range(insights) : e.kind \notin {"weak_areas", "accuracy"}
              /\ recommendations = <<>>
        /\ pc = "done" => Contains(output, "Insights") /\ Contains(output, "Recommendations")
        /\ pc # "done" => ENABLED NextDash

C5_Witness ==
    /\ pc = "done"
    /\ quiz_data.kind = "failed"
    /\ historical_data.kind = "ok"
    /\ Len(insights) = 2
    /\ Contains(output, "chart")

====
